---- MODULE Spec2Model ----
(***************************************************************************)
(* SmartScheduler: the two-stage timetable solver of src/scheduler.py.     *)
(*                                                                         *)
(* Identifiers.  The source keys its tables by strings.  Here a teacher,   *)
(* room and timeslot id is the 1-based position of the row in its table   *)
(* (teacher_ids, room_ids, timeslot_ids keep insertion order), so          *)
(* list.index(id) is id - 1 and list[i] is i + 1.  A group id and a course *)
(* id is an integer whose order is the order sorted() gives the strings.   *)
(* A room kind is the set of the keywords "lab", "project", "classroom"    *)
(* that its lowercased type string contains.  A schedule key               *)
(* "<course>_<instance>[_part<k>]" is the record [course, instance, part], *)
(* part = 0 when the key has no _part suffix; a dict is the sequence of    *)
(* its items in insertion order.  A timeslot_group_id ('_'.join of slot    *)
(* ids) is the sequence of those slot ids.  Groups are inserted in         *)
(* ascending id order, so group_ids is already sorted.                     *)
(***************************************************************************)
EXTENDS Integers, Sequences, FiniteSets, TLC

VARIABLES
    courses,        \* self.courses: course id -> [type, duration]
    teachers,       \* self.teachers: sequence of courses_handled sets
    rooms,          \* self.rooms: sequence of room kinds
    timeslots,      \* self.timeslots: sequence of [day, slot_index]
    groups,         \* self.groups: group id -> sequence of course ids
    schedule,       \* self.schedule
    pc,             \* position inside generate_schedule / _optimize_schedule
    status,         \* status of _generate_feasible_schedule, unset once it returned
    base_schedule,  \* base_schedule of generate_schedule
    population,     \* population of _optimize_schedule
    offspring,      \* offspring of _optimize_schedule
    generation,     \* generation counter of the loop at line 278
    k,              \* index of the pair / mutant the loops at 281 and 286 are at
    result,         \* value returned by generate_schedule
    solver_calls,   \* number of solver.Solve calls of the current generate_schedule
    optimizer_calls,\* number of _optimize_schedule calls of the current generate_schedule
    course_type_arg,\* argument of the _get_suitable_rooms call under study
    suitable_rooms, \* its return value
    gen_schedule,   \* self.schedule of the TimetableGenerator
    metrics,        \* value returned by calculate_metrics
    other_base,     \* base_schedule of the previous generate_schedule call
    other_result,   \* value the previous generate_schedule call returned
    errors,         \* errors of generate_timetable_workflow (src/app.py line 181)
    validate_calls, \* number of validate_data calls of the workflow
    schedulers,     \* number of TimetableScheduler objects the workflow constructed
    outputs,        \* the exports and statistics the workflow generated
    timetable_data  \* st.session_state.timetable_data

vars == <<courses, teachers, rooms, timeslots, groups, schedule, pc, status,
          base_schedule, population, offspring, generation, k, result,
          solver_calls, optimizer_calls, course_type_arg, suitable_rooms,
          gen_schedule, metrics, other_base, other_result, errors,
          validate_calls, schedulers, outputs, timetable_data>>

inputs == <<courses, teachers, rooms, timeslots, groups>>

\* the state of the TimetableGenerator
report_vars == <<gen_schedule, metrics>>

\* what is kept of a previous call of generate_schedule
rerun_vars == <<other_base, other_result>>

\* None where a schedule is expected: a schedule has one key per group and the
\* inputs hold at least one group, so no schedule is the empty function
None == <<>>

\* a local that is not assigned yet
Unset == "unset"

\* no TimetableGenerator is constructed
NotReporting ==
    /\ gen_schedule = None
    /\ metrics = None

\* generate_schedule has not been called before
NotRerunning ==
    /\ other_base = None
    /\ other_result = None

\* the state of generate_timetable_workflow
workflow_vars == <<errors, validate_calls, schedulers, outputs, timetable_data>>

\* generate_timetable_workflow is not running; src/app.py lines 89-90
NotInWorkflow ==
    /\ errors = <<>>
    /\ validate_calls = 0
    /\ schedulers = 0
    /\ outputs = {}
    /\ timetable_data = None

\* ---------------------------------------------------------------- helpers

Range(s) == {s[i] : i \in DOMAIN s}

RECURSIVE Flatten(_)
Flatten(ss) == IF ss = <<>> THEN <<>> ELSE Head(ss) \o Flatten(Tail(ss))

RECURSIVE SumSeq(_)
SumSeq(s) == IF s = <<>> THEN 0 ELSE Head(s) + SumSeq(Tail(s))

Abs(x) == IF x < 0 THEN -x ELSE x

Max(a, b) == IF a > b THEN a ELSE b

\* list.sort / sorted(): a stable ascending sort of a sequence of integers
RECURSIVE InsertSorted(_, _)
InsertSorted(s, x) ==
    IF s = <<>> THEN <<x>>
    ELSE IF x < Head(s) THEN <<x>> \o s
    ELSE <<Head(s)>> \o InsertSorted(Tail(s), x)

RECURSIVE Sorted(_)
Sorted(s) ==
    IF s = <<>> THEN <<>>
    ELSE InsertSorted(Sorted(SubSeq(s, 1, Len(s) - 1)), s[Len(s)])

RECURSIVE SetToSortedSeq(_)
SetToSortedSeq(S) ==
    IF S = {} THEN <<>>
    ELSE LET m == CHOOSE x \in S : \A y \in S : x <= y
         IN  <<m>> \o SetToSortedSeq(S \ {m})

\* the distinct elements of a sequence, in order of first occurrence
RECURSIVE Distinct(_)
Distinct(s) ==
    IF s = <<>> THEN <<>>
    ELSE LET d == Distinct(SubSeq(s, 1, Len(s) - 1))
         IN  IF s[Len(s)] \in Range(d) THEN d ELSE Append(d, s[Len(s)])

\* ------------------------------------------------------------ __init__

course_ids == DOMAIN courses
teacher_ids == [i \in 1..Len(teachers) |-> i]
room_ids == [i \in 1..Len(rooms) |-> i]
timeslot_ids == [i \in 1..Len(timeslots) |-> i]
group_ids == SetToSortedSeq(DOMAIN groups)

days == {timeslots[i].day : i \in DOMAIN timeslots}

course_type_frequency(course_type) ==
    CASE course_type = "TH" -> 3
      [] course_type = "LAB" -> 2
      [] course_type = "PROJECT" -> 1
      [] course_type = "PR" -> 1
      [] OTHER -> 1

\* ------------------------------------------------- _get_suitable_rooms

RECURSIVE SuitableLoop(_, _, _)
SuitableLoop(course_type, i, acc) ==
    IF i > Len(rooms) THEN acc
    ELSE LET room_type == rooms[i]
             next ==
                 IF course_type = "LAB" /\ "lab" \in room_type THEN Append(acc, i)
                 ELSE IF course_type = "PROJECT" /\ "project" \in room_type THEN Append(acc, i)
                 ELSE IF course_type \in {"TH", "PR"} /\ "classroom" \in room_type THEN Append(acc, i)
                 ELSE IF Len(acc) = 0 THEN Append(acc, i)
                 ELSE acc
         IN  SuitableLoop(course_type, i + 1, next)

get_suitable_rooms(course_type) ==
    LET found == SuitableLoop(course_type, 1, <<>>)
    IN  IF Len(found) > 0 THEN found ELSE room_ids

\* ------------------------------------- _generate_feasible_schedule: variables

\* lines 86-91: the days in order of first appearance in timeslot_ids
day_order == Distinct([i \in 1..Len(timeslots) |-> timeslots[i].day])

\* lines 94, 121-122, 346-349: the slots of a day sorted by slot_index
RECURSIVE InsertBySlotIndex(_, _)
InsertBySlotIndex(s, ts) ==
    IF s = <<>> THEN <<ts>>
    ELSE IF timeslots[ts].slot_index < timeslots[Head(s)].slot_index THEN <<ts>> \o s
    ELSE <<Head(s)>> \o InsertBySlotIndex(Tail(s), ts)

RECURSIVE SortBySlotIndex(_)
SortBySlotIndex(s) ==
    IF s = <<>> THEN <<>>
    ELSE InsertBySlotIndex(SortBySlotIndex(SubSeq(s, 1, Len(s) - 1)), s[Len(s)])

\* the slots of every day taken for the slots of one day
day_slots_any_day(day) ==
    SortBySlotIndex(timeslot_ids)

day_slots(day) ==
    SortBySlotIndex(SelectSeq(timeslot_ids, LAMBDA ts : timeslots[ts].day = day))

\* lines 81-82
suitable_teachers(course_id) ==
    SelectSeq(teacher_ids, LAMBDA t : course_id \in teachers[t])

\* lines 70-80: the instance keys of a group, in insertion order
instance_keys(group_id) ==
    LET cs == Distinct(SelectSeq(groups[group_id], LAMBDA c : c \in course_ids))
    IN  Flatten([i \in 1..Len(cs) |->
            [n \in 1..course_type_frequency(courses[cs[i]].type) |->
                [course |-> cs[i], instance |-> n]]])

\* lines 93-98: the timeslot groups of one day for a duration
timeslot_groups(day, course_duration) ==
    LET ds == day_slots(day)
        n  == Len(ds) - course_duration + 1
    IN  [i \in 1..(IF n > 0 THEN n ELSE 0) |-> SubSeq(ds, i, i + course_duration - 1)]

\* lines 93-105: the boolean variables of one instance, in creation order
instance_vars(group_id, instance_key) ==
    LET course_id == instance_key.course
        ts == suitable_teachers(course_id)
        rs == get_suitable_rooms(courses[course_id].type)
        tgs == Flatten([d \in 1..Len(day_order) |->
                   timeslot_groups(day_order[d], courses[course_id].duration)])
    IN  Flatten([g \in 1..Len(tgs) |->
            Flatten([t \in 1..Len(ts) |->
                [r \in 1..Len(rs) |->
                    [group |-> group_id, key |-> instance_key,
                     slots |-> tgs[g], teacher |-> ts[t], room |-> rs[r]]]])])

\* all (group, instance key) pairs of assignments
sessions ==
    UNION {{<<g, key>> : key \in Range(instance_keys(g))} : g \in DOMAIN groups}

all_vars == UNION {Range(instance_vars(s[1], s[2])) : s \in sessions}

\* ----------------------------------- _generate_feasible_schedule: constraints
\* A constraint is [vars, kind]: sum(vars) == 1 ("eq") or sum(vars) <= 1 ("le").

\* lines 107-116
constraint1 ==
    {[vars |-> Range(instance_vars(s[1], s[2])), kind |-> "eq"] :
        s \in {x \in sessions : instance_vars(x[1], x[2]) # <<>>}}

\* constraint 2 posted for the first slot of a timeslot group only
constraint2_first_slot_only ==
    {c \in {[vars |-> {v \in all_vars : ts = v.slots[1] /\ v.teacher = t},
             kind |-> "le"] : t \in Range(teacher_ids), ts \in Range(timeslot_ids)} :
        c.vars # {}}

\* lines 118-137
constraint2 ==
    {c \in {[vars |-> {v \in all_vars : ts \in Range(v.slots) /\ v.teacher = t},
             kind |-> "le"] : t \in Range(teacher_ids), ts \in Range(timeslot_ids)} :
        c.vars # {}}

\* lines 139-157
constraint3 ==
    {c \in {[vars |-> {v \in all_vars : ts \in Range(v.slots) /\ v.room = r},
             kind |-> "le"] : r \in Range(room_ids), ts \in Range(timeslot_ids)} :
        c.vars # {}}

\* lines 159-176
constraint4 ==
    {c \in {[vars |-> {v \in all_vars : ts \in Range(v.slots) /\ v.group = g},
             kind |-> "le"] : g \in Range(group_ids), ts \in Range(timeslot_ids)} :
        c.vars # {}}

\* constraint 5 posted only for pairs that start in the same timeslot
constraint5_same_start_only ==
    {[vars |-> {vi, vj}, kind |-> "le"] :
        <<vi, vj>> \in {p \in all_vars \X all_vars :
            /\ p[1].group = p[2].group
            /\ p[1].key.course = p[2].key.course
            /\ p[1].key.instance < p[2].key.instance
            /\ p[1].slots[1] = p[2].slots[1]}}

\* lines 178-202
constraint5 ==
    {[vars |-> {vi, vj}, kind |-> "le"] :
        <<vi, vj>> \in {p \in all_vars \X all_vars :
            /\ p[1].group = p[2].group
            /\ p[1].key.course = p[2].key.course
            /\ p[1].key.instance < p[2].key.instance
            /\ timeslots[p[1].slots[1]].day = timeslots[p[2].slots[1]].day}}

constraints == constraint1 \cup constraint2 \cup constraint3 \cup constraint4 \cup constraint5

\* ------------------------------------------------------ CpSolver.Solve
\* The solver's contract: a valuation is the set X of the variables valued 1;
\* it is a solution iff every posted constraint holds.

Holds(c, X) ==
    IF c.kind = "eq" THEN Cardinality(c.vars \cap X) = 1
    ELSE Cardinality(c.vars \cap X) <= 1

\* valuing v 1 on top of X breaks no "le" constraint: a set that breaks one
\* cannot be extended to a solution
Compatible(cons, X, v) ==
    \A c \in cons : (c.kind = "le" /\ v \in c.vars) => (c.vars \cap X) \subseteq {v}

\* the sets that hold one variable of every "eq" constraint and break no "le"
\* constraint
RECURSIVE Picks(_, _)
Picks(cons, eqs) ==
    IF eqs = {} THEN {{}}
    ELSE LET c == CHOOSE e \in eqs : TRUE
         IN  UNION {{X \cup {v} : v \in {w \in c.vars : Compatible(cons, X, w)}} :
                       X \in Picks(cons, eqs \ {c})}

Solutions(cons, xs) ==
    LET eqs == {c \in cons : c.kind = "eq"}
        free == xs \ UNION {c.vars : c \in eqs}
    IN  {X \in {P \cup F : P \in Picks(cons, eqs), F \in SUBSET free} :
            \A c \in cons : Holds(c, X)}

\* ------------------------------- _generate_feasible_schedule: the schedule

\* Course ids are numbers standing for the id strings: 1..4 for ids without
\* '_' ('C1'..'C4'), 5 for 'C3_101', whose first field is the id of course 3,
\* and 6 for 'EE_101', whose first field 'EE' (100 here) is no course id.
\* id_fields is course_id.split('_').
id_fields(course_id) ==
    CASE course_id = 5 -> <<3, 101>>
      [] course_id = 6 -> <<100, 101>>
      [] OTHER -> <<course_id>>

\* instance_key.split('_'): the '_'-separated fields of "<course>_<instance>"
key_fields(instance_key) ==
    id_fields(instance_key.course) \o <<instance_key.instance>>

\* dict[key] = value on a dict kept as its items in insertion order
RECURSIVE DictPut(_, _)
DictPut(d, item) ==
    IF d = <<>> THEN <<item>>
    ELSE IF Head(d).key = item.key THEN <<item>> \o Tail(d)
    ELSE <<Head(d)>> \o DictPut(Tail(d), item)

RECURSIVE DictPutAll(_, _)
DictPutAll(d, items) ==
    IF items = <<>> THEN d
    ELSE DictPutAll(DictPut(d, Head(items)), Tail(items))

\* lines 222-230: the entries written for one variable valued 1
var_entries(v) ==
    LET course_id == key_fields(v.key)[1]
        course_duration == courses[course_id].duration
    IN  [i \in 1..Len(v.slots) |->
            [key |-> [course |-> v.key.course, instance |-> v.key.instance,
                      part |-> IF course_duration > 1 THEN i ELSE 0],
             timeslot |-> v.slots[i], teacher |-> v.teacher, room |-> v.room,
             course_id |-> course_id]]

\* lines 211-231: the schedule of the valuation X
extract_schedule(X) ==
    [g \in DOMAIN groups |->
        LET keys == instance_keys(g)
            ones(key) == {v \in X : v.group = g /\ v.key = key}
            \* the variables of key valued 1, in the order lines 217-219 visit them
            chosen(key) == IF ones(key) = {} THEN <<>>
                           ELSE IF Cardinality(ones(key)) = 1
                           THEN <<CHOOSE v \in ones(key) : TRUE>>
                           ELSE SelectSeq(instance_vars(g, key), LAMBDA v : v \in X)
            items == Flatten([i \in 1..Len(keys) |->
                        Flatten([j \in 1..Len(chosen(keys[i])) |->
                            var_entries(chosen(keys[i])[j])])])
        IN  DictPutAll(<<>>, items)]

\* --------------------------------------------- _schedule_to_individual

\* the '_'-separated fields of a schedule key
key_tokens(key) ==
    id_fields(key.course) \o <<key.instance>>
        \o (IF key.part > 0 THEN <<key.part>> ELSE <<>>)

\* str.startswith, field by field
StartsWith(s, prefix) ==
    /\ Len(prefix) <= Len(s)
    /\ SubSeq(s, 1, Len(prefix)) = prefix

\* lines 311-321: the three genes of one instance
instance_genes(group_schedule, course_id, instance) ==
    LET instance_key == id_fields(course_id) \o <<instance>>
        assignments == SelectSeq(group_schedule,
                           LAMBDA a : StartsWith(key_tokens(a.key), instance_key))
    IN  IF assignments # <<>>
        THEN LET first_assignment == assignments[1]
             IN  <<first_assignment.timeslot - 1,
                   first_assignment.teacher - 1,
                   first_assignment.room - 1>>
        ELSE <<0, 0, 0>>

\* lines 302-322
schedule_to_individual(sched) ==
    Flatten([g \in 1..Len(group_ids) |->
        LET group_id == group_ids[g]
            group_courses == SetToSortedSeq({sched[group_id][i].course_id :
                                 i \in DOMAIN sched[group_id]})
        IN  IF group_id \in DOMAIN sched
            THEN Flatten([c \in 1..Len(group_courses) |->
                     Flatten([n \in 1..course_type_frequency(courses[group_courses[c]].type) |->
                         instance_genes(sched[group_id], group_courses[c], n)])])
            ELSE <<>>])

\* --------------------------------------------- _individual_to_schedule

\* lines 328-337: the instances of a group in decoding order
decode_order(group_id) ==
    LET cs == Sorted(SelectSeq(groups[group_id], LAMBDA c : c \in course_ids))
    IN  Flatten([i \in 1..Len(cs) |->
            [n \in 1..course_type_frequency(courses[cs[i]].type) |->
                [course |-> cs[i], instance |-> n]]])

\* the number of instances decoded before those of group_ids[g]
decode_offset(g) == SumSeq([h \in 1..(g - 1) |-> Len(decode_order(group_ids[h]))])

\* a decoder that writes the entry of the start slot only
decode_entries_start_only(individual, idx, instance_key) ==
    IF idx + 2 < Len(individual)
    THEN LET timeslot_id == timeslot_ids[(individual[idx + 1] % Len(timeslot_ids)) + 1]
             course_duration == courses[instance_key.course].duration
         IN  <<[key |-> [course |-> instance_key.course,
                         instance |-> instance_key.instance,
                         part |-> IF course_duration > 1 THEN 1 ELSE 0],
                timeslot |-> timeslot_id,
                teacher |-> teacher_ids[(individual[idx + 2] % Len(teacher_ids)) + 1],
                room |-> room_ids[(individual[idx + 3] % Len(room_ids)) + 1],
                course_id |-> instance_key.course]>>
    ELSE <<>>

\* lines 339-360: the entries of the instance that reads the genes at idx (0-based)
decode_entries(individual, idx, instance_key) ==
    IF idx + 2 < Len(individual)
    THEN LET timeslot_idx == individual[idx + 1] % Len(timeslot_ids)
             teacher_idx == individual[idx + 2] % Len(teacher_ids)
             room_idx == individual[idx + 3] % Len(room_ids)
             timeslot_id == timeslot_ids[timeslot_idx + 1]
             ds == day_slots(timeslots[timeslot_id].day)
             start_idx == (CHOOSE i \in 1..Len(ds) : ds[i] = timeslot_id) - 1
             course_duration == courses[instance_key.course].duration
         IN  IF start_idx + course_duration - 1 < Len(ds)
             THEN [i \in 1..course_duration |->
                      [key |-> [course |-> instance_key.course,
                                instance |-> instance_key.instance,
                                part |-> IF course_duration > 1 THEN i ELSE 0],
                       timeslot |-> ds[start_idx + i],
                       teacher |-> teacher_ids[teacher_idx + 1],
                       room |-> room_ids[room_idx + 1],
                       course_id |-> instance_key.course]]
             ELSE <<>>
    ELSE <<>>

\* lines 324-362
individual_to_schedule(individual) ==
    [group_id \in DOMAIN groups |->
        LET g == CHOOSE h \in 1..Len(group_ids) : group_ids[h] = group_id
            order == decode_order(group_id)
            items == Flatten([i \in 1..Len(order) |->
                        decode_entries(individual, 3 * (decode_offset(g) + i - 1), order[i])])
        IN  DictPutAll(<<>>, items)]

\* --------------------------------------------------- _evaluate_schedule
\* The scores are rationals; every one is kept as an integer by scaling:
\* fitness values are multiplied by 10 * |days| * ScaleW, ScaleW a common
\* multiple of every possible number of loaded teachers.

RECURSIVE Factorial(_)
Factorial(n) == IF n <= 1 THEN 1 ELSE n * Factorial(n - 1)

ScaleW == Factorial(Len(teachers))

all_entries(sched) ==
    Flatten([g \in 1..Len(group_ids) |-> sched[group_ids[g]]])

\* lines 386-390: the gaps of a sorted list of slot indices
gaps_of(sorted) ==
    SumSeq([i \in 1..(Len(sorted) - 1) |-> Max(0, sorted[i + 1] - sorted[i] - 1)])

\* lines 373-391
evaluate_gaps(sched) ==
    LET total_gap_penalty ==
            SumSeq([g \in 1..Len(group_ids) |->
                LET group_timeslots ==
                        [i \in 1..Len(sched[group_ids[g]]) |->
                            timeslots[sched[group_ids[g]][i].timeslot].slot_index]
                IN  IF Len(group_timeslots) > 1
                    THEN gaps_of(Sorted(group_timeslots))
                    ELSE 0])
    IN  Max(0, 100 - total_gap_penalty * 5)

\* lines 393-411, times |days|
evaluate_distribution(sched) ==
    LET es == all_entries(sched)
        total_classes == Len(es)
        day_seq == day_order
        actual(day) == Len(SelectSeq(es, LAMBDA e : timeslots[e.timeslot].day = day))
        deviation == SumSeq([d \in 1..Len(day_seq) |->
                         Abs(Len(day_seq) * actual(day_seq[d]) - total_classes)])
    IN  IF total_classes = 0 THEN 0
        ELSE Max(0, 100 * Len(day_seq) - deviation * 10)

\* lines 413-425, times the number of loaded teachers
evaluate_workload_balance(sched) ==
    LET es == all_entries(sched)
        loaded == SetToSortedSeq({es[i].teacher : i \in DOMAIN es})
        n == Len(loaded)
        workload(t) == Len(SelectSeq(es, LAMBDA e : e.teacher = t))
        deviation == SumSeq([i \in 1..n |-> Abs(n * workload(loaded[i]) - Len(es))])
    IN  IF n = 0 THEN 0
        ELSE (ScaleW \div n) * Max(0, 100 * n - deviation * 5)

\* a fitness that also charges every pair of entries sharing a timeslot and a
\* room
evaluate_schedule_room_aware(individual) ==
    LET sched == individual_to_schedule(individual)
        nd == Cardinality(days)
        es == all_entries(sched)
        double_booked == {p \in (DOMAIN es) \X (DOMAIN es) :
                             /\ p[1] < p[2]
                             /\ es[p[1]].timeslot = es[p[2]].timeslot
                             /\ es[p[1]].room = es[p[2]].room}
    IN  3 * nd * ScaleW * evaluate_gaps(sched)
        + 3 * ScaleW * evaluate_distribution(sched)
        + 4 * nd * evaluate_workload_balance(sched)
        - Cardinality(double_booked)

\* lines 364-371, times 10 * |days| * ScaleW
evaluate_schedule(individual) ==
    LET sched == individual_to_schedule(individual)
        nd == Cardinality(days)
    IN  3 * nd * ScaleW * evaluate_gaps(sched)
        + 3 * ScaleW * evaluate_distribution(sched)
        + 4 * nd * evaluate_workload_balance(sched)

\* ------------------------------------------------------------ inputs

CourseTable ==
    (1 :> [type |-> "TH", duration |-> 1]) @@
    (2 :> [type |-> "LAB", duration |-> 2]) @@
    (3 :> [type |-> "PROJECT", duration |-> 1]) @@
    (4 :> [type |-> "PR", duration |-> 1])

RoomKinds == {{"classroom"}, {"lab"}, {"project"}, {"lab", "project"}, {}}

\* sequences over S of length 1..n
RECURSIVE SeqsUpTo(_, _)
SeqsUpTo(S, n) ==
    IF n = 0 THEN {}
    ELSE SeqsUpTo(S, n - 1) \cup [1..n -> S]

\* a timeslot table from the days of its rows: slot_index is the insertion index
timeslot_table(ds) == [i \in 1..Len(ds) |-> [day |-> ds[i], slot_index |-> i - 1]]

MaxRooms == 3
MaxGroups == 2
MaxSessions == 4

DayRows ==
    {<<"Mon", "Tue", "Wed">>,
     <<"Mon", "Tue", "Mon", "Tue">>,
     <<"Mon", "Mon", "Mon", "Tue", "Tue">>,
     <<"Mon", "Mon">>}

TeacherTables ==
    {<<{1, 2, 3, 4}>>,
     <<{1, 2}, {2, 3}>>,
     <<{2, 3, 4}, {1, 2, 3, 4}>>}

FeasRoomTables ==
    {<<{"classroom"}>>,
     <<{"classroom"}, {"lab"}>>,
     <<{"lab"}, {"classroom"}, {"lab"}>>}

CourseLists == {<<1>>, <<2>>, <<3>>, <<4, 2>>}

\* the number of sessions a group table asks for
session_count(gs) ==
    SumSeq([g \in 1..Len(gs) |->
        SumSeq([i \in 1..Len(gs[g]) |-> course_type_frequency(CourseTable[gs[g][i]].type)])])

GroupTables ==
    {gs \in UNION {[1..n -> CourseLists] : n \in 1..MaxGroups} :
        session_count(gs) <= MaxSessions}

FeasInit ==
    /\ courses = CourseTable
    /\ teachers \in TeacherTables
    /\ rooms \in FeasRoomTables
    /\ timeslots \in {timeslot_table(ds) : ds \in DayRows}
    /\ groups \in GroupTables
    /\ schedule = None
    /\ pc = "idle"
    /\ status = Unset
    /\ base_schedule = None
    /\ population = <<>>
    /\ offspring = <<>>
    /\ generation = 0
    /\ k = 0
    /\ result = None
    /\ solver_calls = 0
    /\ optimizer_calls = 0
    /\ course_type_arg = Unset
    /\ suitable_rooms = <<>>
    /\ NotReporting
    /\ NotRerunning
    /\ NotInWorkflow

\* ------------------------------------------- _generate_feasible_schedule

\* lines 215-216: self.courses[course_id] raises KeyError for an instance key
\* whose first field is not a course id
split_raises ==
    \E s \in sessions : key_fields(s[2])[1] \notin course_ids

\* lines 60-234: build the model, solve it, extract the schedule or None; the
\* KeyError of line 216 leaves generate_schedule ("raised")
generate_feasible_schedule ==
    /\ pc = "idle"
    /\ solver_calls' = solver_calls + 1
    /\ LET cons == constraints
           sols == Solutions(cons, all_vars)
       IN  \/ \E X \in sols, st \in {"OPTIMAL", "FEASIBLE"} :
                 /\ status' = st
                 /\ IF split_raises
                    THEN /\ base_schedule' = None
                         /\ pc' = "raised"
                    ELSE /\ base_schedule' = extract_schedule(X)
                         /\ pc' = "feasible"
           \/ /\ sols = {}
              /\ status' = "INFEASIBLE"
              /\ base_schedule' = None
              /\ pc' = "feasible"
           \/ /\ status' = "UNKNOWN"
              /\ base_schedule' = None
              /\ pc' = "feasible"
    /\ UNCHANGED <<inputs, workflow_vars, report_vars, rerun_vars, schedule, population, offspring, generation, k, result,
                   optimizer_calls, course_type_arg, suitable_rooms>>

FeasNext == generate_feasible_schedule

FeasSpec == FeasInit /\ [][FeasNext]_vars

\* ------------------------------------------------------ _optimize_schedule

population_size == 2
generations == 2
tournsize == 3

\* creator.Individual: the genes and fitness.values, the tuple (score,), which
\* is the empty tuple while deleted
Individual(genes, fitness) == [genes |-> genes, fitness |-> fitness]

\* a crossover that cuts at the drawn index, not at a multiple of 3
crossover_unsnapped(ind1, ind2, cx_rand) ==
    IF Len(ind1) # Len(ind2) THEN <<ind1, ind2>>
    ELSE IF Len(ind1) > 3
    THEN <<SubSeq(ind1, 1, cx_rand) \o SubSeq(ind2, cx_rand + 1, Len(ind2)),
           SubSeq(ind2, 1, cx_rand) \o SubSeq(ind1, cx_rand + 1, Len(ind1))>>
    ELSE <<ind1, ind2>>

\* lines 427-437; cx_rand is the value of random.randint(1, len(ind1) - 1)
crossover(ind1, ind2, cx_rand) ==
    IF Len(ind1) # Len(ind2) THEN <<ind1, ind2>>
    ELSE IF Len(ind1) > 3
    THEN LET cx_point == (cx_rand \div 3) * 3
         IN  <<SubSeq(ind1, 1, cx_point) \o SubSeq(ind2, cx_point + 1, Len(ind2)),
               SubSeq(ind2, 1, cx_point) \o SubSeq(ind1, cx_point + 1, Len(ind1))>>
    ELSE <<ind1, ind2>>

\* a mutation that writes the drawn value to the next gene of the triple
mutate_shifted(individual, session_rand, component, value) ==
    IF Len(individual) >= 3
    THEN LET mutation_point == session_rand * 3
         IN  [individual EXCEPT ![mutation_point + ((component + 1) % 3) + 1] = value]
    ELSE individual

\* lines 439-450; session_rand, component and value are the three random draws
mutate(individual, session_rand, component, value) ==
    IF Len(individual) >= 3
    THEN LET mutation_point == session_rand * 3
         IN  [individual EXCEPT ![mutation_point + component + 1] = value]
    ELSE individual

\* a third draw whose upper bound is the length itself, not the last index
gene_domain_inclusive(component) ==
    IF component = 0 THEN 0..Len(timeslot_ids)
    ELSE IF component = 1 THEN 0..Len(teacher_ids)
    ELSE 0..Len(room_ids)

\* the range of the third draw of _mutate, lines 445-449
gene_domain(component) ==
    IF component = 0 THEN 0..(Len(timeslot_ids) - 1)
    ELSE IF component = 1 THEN 0..(Len(teacher_ids) - 1)
    ELSE 0..(Len(room_ids) - 1)

\* tools.selTournament, one pick: the first best of the aspirants drawn
tournament_pick(pop, aspirants) ==
    LET best == CHOOSE i \in 1..Len(aspirants) :
                    /\ \A j \in 1..Len(aspirants) :
                           pop[aspirants[j]].fitness[1] <= pop[aspirants[i]].fitness[1]
                    /\ \A j \in 1..(i - 1) :
                           pop[aspirants[j]].fitness[1] < pop[aspirants[i]].fitness[1]
    IN  aspirants[best]

\* the picks the random aspirants of one tournament can give
tournament_picks(pop) ==
    {tournament_pick(pop, a) : a \in [1..tournsize -> 1..Len(pop)]}

\* tools.selBest(population, 1)[0]: the first individual of maximal fitness
sel_best(pop) ==
    LET best == CHOOSE i \in 1..Len(pop) :
                    /\ \A j \in 1..Len(pop) : pop[j].fitness[1] <= pop[i].fitness[1]
                    /\ \A j \in 1..(i - 1) : pop[j].fitness[1] < pop[i].fitness[1]
    IN  pop[best]

\* a failed feasibility stage that is run again
return_infeasible_retry ==
    /\ pc = "feasible"
    /\ base_schedule = None
    /\ status' = Unset
    /\ pc' = "idle"
    /\ UNCHANGED <<inputs, workflow_vars, report_vars, rerun_vars, schedule, base_schedule, population, offspring,
                   generation, k, result, solver_calls, optimizer_calls,
                   course_type_arg, suitable_rooms>>

\* lines 48-50 of generate_schedule
return_infeasible ==
    /\ pc = "feasible"
    /\ base_schedule = None
    /\ result' = None
    /\ status' = Unset
    /\ pc' = "returned"
    /\ UNCHANGED <<inputs, workflow_vars, report_vars, rerun_vars, schedule, base_schedule, population, offspring,
                   generation, k, solver_calls, optimizer_calls, course_type_arg,
                   suitable_rooms>>

\* lines 53, 251-276: the seed population and its fitness
start_optimize ==
    /\ pc = "feasible"
    /\ base_schedule # None
    /\ optimizer_calls' = optimizer_calls + 1
    /\ LET seed == schedule_to_individual(base_schedule)
       IN  population' = [i \in 1..population_size |->
                             Individual(seed, <<evaluate_schedule(seed)>>)]
    /\ generation' = 0
    /\ status' = Unset
    /\ pc' = IF generations > 0 THEN "select" ELSE "best"
    /\ UNCHANGED <<inputs, workflow_vars, report_vars, rerun_vars, schedule, base_schedule, offspring, k, result,
                   solver_calls, course_type_arg, suitable_rooms>>

\* lines 279-280: tournament selection, then clone
select ==
    /\ pc = "select"
    /\ \E chosen \in [1..Len(population) -> tournament_picks(population)] :
           offspring' = [i \in 1..Len(population) |-> population[chosen[i]]]
    /\ k' = 1
    /\ pc' = IF Len(population) >= 2 THEN "mate" ELSE "mutate"
    /\ UNCHANGED <<inputs, workflow_vars, report_vars, rerun_vars, schedule, status, base_schedule, population, generation,
                   result, solver_calls, optimizer_calls, course_type_arg,
                   suitable_rooms>>

\* lines 281-285: the k-th pair (offspring[2k-2], offspring[2k-1] in the source)
mate ==
    /\ pc = "mate"
    /\ LET child1 == offspring[2 * k - 1].genes
           child2 == offspring[2 * k].genes
       IN  \/ UNCHANGED offspring
           \/ \E cx_rand \in 1..Max(1, Len(child1) - 1) :
                  LET children == crossover(child1, child2, cx_rand)
                  IN  offspring' = [offspring EXCEPT
                                       ![2 * k - 1] = Individual(children[1], <<>>),
                                       ![2 * k] = Individual(children[2], <<>>)]
    /\ IF 2 * (k + 1) <= Len(offspring)
       THEN k' = k + 1 /\ pc' = "mate"
       ELSE k' = 1 /\ pc' = "mutate"
    /\ UNCHANGED <<inputs, workflow_vars, report_vars, rerun_vars, schedule, status, base_schedule, population, generation,
                   result, solver_calls, optimizer_calls, course_type_arg,
                   suitable_rooms>>

\* lines 286-289: the k-th mutant
mutate_step ==
    /\ pc = "mutate"
    /\ LET mutant == offspring[k].genes
       IN  \/ UNCHANGED offspring
           \/ /\ Len(mutant) < 3
              /\ offspring' = [offspring EXCEPT ![k] = Individual(mutant, <<>>)]
           \/ /\ Len(mutant) >= 3
              /\ \E session_rand \in 0..((Len(mutant) \div 3) - 1), component \in 0..2 :
                     \E value \in gene_domain(component) :
                         offspring' = [offspring EXCEPT ![k] =
                             Individual(mutate(mutant, session_rand, component, value), <<>>)]
    /\ IF k + 1 <= Len(offspring)
       THEN k' = k + 1 /\ pc' = "mutate"
       ELSE k' = 0 /\ pc' = "evaluate"
    /\ UNCHANGED <<inputs, workflow_vars, report_vars, rerun_vars, schedule, status, base_schedule, population, generation,
                   result, solver_calls, optimizer_calls, course_type_arg,
                   suitable_rooms>>

\* lines 290-296: evaluate the invalid individuals, replace the population
evaluate ==
    /\ pc = "evaluate"
    /\ population' = [i \in 1..Len(offspring) |->
                         IF offspring[i].fitness = <<>>
                         THEN Individual(offspring[i].genes,
                                         <<evaluate_schedule(offspring[i].genes)>>)
                         ELSE offspring[i]]
    /\ offspring' = <<>>
    /\ generation' = generation + 1
    /\ pc' = IF generation + 1 < generations THEN "select" ELSE "best"
    /\ UNCHANGED <<inputs, workflow_vars, report_vars, rerun_vars, schedule, status, base_schedule, k, result, solver_calls,
                   optimizer_calls, course_type_arg, suitable_rooms>>

\* lines 298-300 and 55-58: decode the best individual, store and return it
return_optimized ==
    /\ pc = "best"
    /\ LET optimized_schedule == individual_to_schedule(sel_best(population).genes)
       IN  /\ schedule' = optimized_schedule
           /\ result' = optimized_schedule
    /\ pc' = "returned"
    /\ UNCHANGED <<inputs, workflow_vars, report_vars, rerun_vars, status, base_schedule, population, offspring, generation,
                   k, solver_calls, optimizer_calls, course_type_arg, suitable_rooms>>

\* ---------------------------------------------------- generate_schedule

\* the state after TimetableScheduler(...) on one of the input tables of ins
Constructed(ins) ==
    /\ courses = CourseTable
    /\ \E in \in ins :
           /\ teachers = in.teachers
           /\ rooms = in.rooms
           /\ timeslots = timeslot_table(in.days)
           /\ groups = in.groups
    /\ schedule = None
    /\ pc = "idle"
    /\ status = Unset
    /\ base_schedule = None
    /\ population = <<>>
    /\ offspring = <<>>
    /\ generation = 0
    /\ k = 0
    /\ result = None
    /\ solver_calls = 0
    /\ optimizer_calls = 0
    /\ course_type_arg = Unset
    /\ suitable_rooms = <<>>
    /\ NotReporting
    /\ NotRerunning
    /\ NotInWorkflow

\* small tables of single-slot courses: one group with two courses, with and
\* without a second slot; two groups sharing the teacher and the room; a
\* course that no teacher handles
SmallInputs ==
    {[teachers |-> <<{3, 4}>>, rooms |-> <<{"classroom"}>>,
      days |-> <<"Mon", "Tue">>, groups |-> <<<<3, 4>>>>],
     [teachers |-> <<{3, 4}>>, rooms |-> <<{"classroom"}>>,
      days |-> <<"Mon">>, groups |-> <<<<3, 4>>>>],
     [teachers |-> <<{3}>>, rooms |-> <<{"classroom"}>>,
      days |-> <<"Mon", "Tue">>, groups |-> <<<<3>>, <<3>>>>],
     [teachers |-> <<{3}>>, rooms |-> <<{"classroom"}>>,
      days |-> <<"Mon">>, groups |-> <<<<3, 4>>>>]}

\* a two-slot LAB twice a week, one of two teachers handling it
RichInputs ==
    {[teachers |-> <<{2}, {1, 3}>>, rooms |-> <<{"lab"}>>,
      days |-> <<"Mon", "Mon", "Tue", "Tue">>, groups |-> <<<<2>>>>]}

Init == Constructed(SmallInputs)

RichInit == Constructed(RichInputs)

Next ==
    \/ generate_feasible_schedule
    \/ return_infeasible
    \/ start_optimize
    \/ select
    \/ mate
    \/ mutate_step
    \/ evaluate
    \/ return_optimized

Spec == Init /\ [][Next]_vars

RichSpec == RichInit /\ [][Next]_vars

\* ------------------------------------------- _get_suitable_rooms alone

CourseTypes == {"TH", "LAB", "PROJECT", "PR"}

RoomsInit ==
    /\ courses = CourseTable
    /\ teachers = <<{1, 2, 3, 4}>>
    /\ rooms \in SeqsUpTo(RoomKinds, MaxRooms)
    /\ timeslots = timeslot_table(<<"Mon">>)
    /\ groups = <<<<>>>>
    /\ schedule = None
    /\ pc = "rooms_call"
    /\ status = Unset
    /\ base_schedule = None
    /\ population = <<>>
    /\ offspring = <<>>
    /\ generation = 0
    /\ k = 0
    /\ result = None
    /\ solver_calls = 0
    /\ optimizer_calls = 0
    /\ course_type_arg \in CourseTypes
    /\ suitable_rooms = <<>>
    /\ NotReporting
    /\ NotRerunning
    /\ NotInWorkflow

\* lines 236-249, called with course_type_arg
call_get_suitable_rooms ==
    /\ pc = "rooms_call"
    /\ suitable_rooms' = get_suitable_rooms(course_type_arg)
    /\ pc' = "rooms_returned"
    /\ UNCHANGED <<inputs, workflow_vars, report_vars, rerun_vars, schedule, status, base_schedule, population, offspring,
                   generation, k, result, solver_calls, optimizer_calls,
                   course_type_arg>>

RoomsNext == call_get_suitable_rooms

RoomsSpec == RoomsInit /\ [][RoomsNext]_vars


\* ------------------------------------------------------------ properties

\* the (group, position) pairs of the entries of a schedule
entry_ids(sched) == UNION {{g} \X (1..Len(sched[g])) : g \in DOMAIN sched}

\* no two entries share (group, timeslot), (teacher, timeslot) or (room, timeslot)
ConflictFree(sched) ==
    \A a, b \in entry_ids(sched) :
        LET ea == sched[a[1]][a[2]]
            eb == sched[b[1]][b[2]]
        IN  (a # b /\ ea.timeslot = eb.timeslot) =>
                /\ a[1] # b[1]
                /\ ea.teacher # eb.teacher
                /\ ea.room # eb.room

\* the instances of a course that a group's schedule holds
instances_present(group_schedule, course_id) ==
    {group_schedule[i].key.instance :
        i \in {j \in DOMAIN group_schedule : group_schedule[j].course_id = course_id}}

\* the courses a group asks for
required_courses(g) == Range(groups[g]) \cap course_ids

Returned == pc = "returned" /\ result # None

\* C1: a schedule returned by generate_schedule has no two entries with the
\* same (group, timeslot), the same (teacher, timeslot) or the same
\* (room, timeslot).
C1_ReturnedConflictFree == Returned => ConflictFree(result)

\* C2: in a schedule returned by generate_schedule every course of every group
\* is present with exactly frequency(course.type) distinct instances.
C2_ReturnedFrequency ==
    Returned =>
        \A g \in DOMAIN groups : \A c \in required_courses(g) :
            Cardinality(instances_present(result[g], c))
                = course_type_frequency(courses[c].type)

\* C3: in a schedule returned by generate_schedule the teacher of every entry
\* has the entry's course in courses_handled.
C3_ReturnedTeacherEligible ==
    Returned =>
        \A a \in entry_ids(result) :
            result[a[1]][a[2]].course_id \in teachers[result[a[1]][a[2]].teacher]

\* C4: in a schedule returned by generate_schedule two distinct instances of
\* the same (group, course) never start on the same day.
C4_ReturnedDistinctDays ==
    Returned =>
        \A a, b \in entry_ids(result) :
            LET ea == result[a[1]][a[2]]
                eb == result[b[1]][b[2]]
            IN  (/\ a[1] = b[1]
                 /\ ea.course_id = eb.course_id
                 /\ ea.key.instance # eb.key.instance
                 /\ ea.key.part <= 1
                 /\ eb.key.part <= 1) =>
                    timeslots[ea.timeslot].day # timeslots[eb.timeslot].day

\* the keyword a room kind must contain to be the preferred kind of a course type
preferred_keyword(course_type) ==
    CASE course_type = "LAB" -> "lab"
      [] course_type = "PROJECT" -> "project"
      [] OTHER -> "classroom"

preferred_rooms(course_type) ==
    {r \in Range(room_ids) : preferred_keyword(course_type) \in rooms[r]}

\* C5: when a room of the preferred kind exists, _get_suitable_rooms returns
\* only rooms of the preferred kind, whatever the order of the room table.
C5_OnlyPreferredRooms ==
    (pc = "rooms_returned" /\ preferred_rooms(course_type_arg) # {}) =>
        Range(suitable_rooms) \subseteq preferred_rooms(course_type_arg)

\* C6: when no room of the preferred kind exists, the legal rooms are all rooms.
C6_FallbackAllRooms ==
    (pc = "rooms_returned" /\ preferred_rooms(course_type_arg) = {}) =>
        Range(suitable_rooms) = Range(room_ids)

SolverSucceeded == status \in {"OPTIMAL", "FEASIBLE"}

StageFailed == pc = "feasible" /\ ~SolverSucceeded

\* C7: the optimizer runs only after the feasibility stage returned a schedule;
\* when the stage fails (status other than OPTIMAL or FEASIBLE) it hands back
\* None and generate_schedule returns None from there, without running the
\* optimizer, without touching self.schedule and without solving again.
C7_FeasibilityGate ==
    /\ [](/\ optimizer_calls > 0 => base_schedule # None
          /\ solver_calls <= 1
          /\ StageFailed => base_schedule = None
          /\ (pc = "returned" /\ base_schedule = None) =>
                 (result = None /\ optimizer_calls = 0))
    /\ [][StageFailed =>
             /\ pc' = "returned"
             /\ result' = None
             /\ schedule' = schedule
             /\ optimizer_calls' = 0
             /\ solver_calls' = solver_calls]_vars

\* generate_schedule has returned None after a failed feasibility stage
C7_Witness ==
    /\ pc = "returned"
    /\ base_schedule = None
    /\ result = None
    /\ solver_calls = 1

\* a course some group asks for has no teacher that handles it
SomeCourseWithoutTeacher ==
    \E g \in DOMAIN groups : \E c \in required_courses(g) :
        suitable_teachers(c) = <<>>

\* C8: when a required course has no legal teacher the core returns infeasible
\* and produces no schedule.
C8_NoTeacherInfeasible ==
    (pc = "returned" /\ SomeCourseWithoutTeacher) => result = None

\* the start entries a group's schedule holds for one session
session_starts(group_schedule, course_id, instance) ==
    {i \in DOMAIN group_schedule :
        /\ group_schedule[i].key.course = course_id
        /\ group_schedule[i].key.instance = instance
        /\ group_schedule[i].key.part <= 1}

\* C9: when the feasibility stage returns a schedule, every expanded session
\* (group, course, instance) has exactly one chosen placement in it.
C9_OnePlacementPerSession ==
    (pc = "feasible" /\ base_schedule # None) =>
        \A g \in DOMAIN groups : \A c \in required_courses(g) :
            \A n \in 1..course_type_frequency(courses[c].type) :
                Cardinality(session_starts(base_schedule[g], c, n)) = 1

day_of(entry) == timeslots[entry.timeslot].day

BestInputs ==
    {[teachers |-> <<{2}, {1, 3}>>, rooms |-> <<{"lab"}>>,
      days |-> <<"Mon", "Mon", "Tue", "Tue">>, groups |-> <<<<2>>>>],
     [teachers |-> <<{2, 3}>>, rooms |-> <<{"lab"}, {"lab"}>>,
      days |-> <<"Mon", "Tue", "Mon", "Tue">>, groups |-> <<<<2>>>>],
     [teachers |-> <<{2, 3}>>, rooms |-> <<{"lab", "project"}>>,
      days |-> <<"Mon", "Tue", "Mon", "Tue", "Mon">>, groups |-> <<<<3, 2>>>>]}

\* the individuals of n sessions whose genes lie in their ranges
gene_vectors(n) ==
    {[i \in 1..(3 * n) |->
         IF (i - 1) % 3 = 0 THEN ts[((i - 1) \div 3) + 1]
         ELSE IF (i - 1) % 3 = 1 THEN te[((i - 1) \div 3) + 1]
         ELSE ro[((i - 1) \div 3) + 1]] :
        ts \in [1..n -> gene_domain(0)],
        te \in [1..n -> gene_domain(1)],
        ro \in [1..n -> gene_domain(2)]}

\* lines 53, 251-296: _optimize_schedule up to the end of its last generation
evolve ==
    /\ pc = "feasible"
    /\ base_schedule # None
    /\ optimizer_calls' = optimizer_calls + 1
    /\ \E genes \in gene_vectors(Len(schedule_to_individual(base_schedule)) \div 3) :
           population' = [i \in 1..population_size |->
                             Individual(genes, <<evaluate_schedule(genes)>>)]
    /\ generation' = generations
    /\ status' = Unset
    /\ pc' = "best"
    /\ UNCHANGED <<inputs, workflow_vars, report_vars, rerun_vars, schedule, base_schedule,
                   offspring, k, result, solver_calls, course_type_arg,
                   suitable_rooms>>

BestInit == Constructed(BestInputs)

BestNext ==
    \/ generate_feasible_schedule
    \/ return_infeasible
    \/ evolve
    \/ return_optimized

BestSpec == BestInit /\ [][BestNext]_vars

\* the positions of a group's schedule that hold the entries of one session
session_entries(group_schedule, course_id, instance) ==
    {i \in DOMAIN group_schedule :
        /\ group_schedule[i].key.course = course_id
        /\ group_schedule[i].key.instance = instance}

\* C12: every session present in a returned schedule whose course has duration
\* D > 1 has exactly the D entries part1 .. partD, all with the same teacher and
\* the same room; a session of duration 1 has exactly one entry, keyed without
\* a part.
C12_PartsComplete ==
    Returned =>
        \A g \in DOMAIN result : \A i \in DOMAIN result[g] :
            LET e == result[g][i]
                D == courses[e.course_id].duration
                es == session_entries(result[g], e.key.course, e.key.instance)
            IN  /\ Cardinality(es) = D
                /\ \A j \in es : /\ result[g][j].teacher = e.teacher
                                  /\ result[g][j].room = e.room
                /\ IF D > 1
                   THEN {result[g][j].key.part : j \in es} = 1..D
                   ELSE e.key.part = 0

\* a returned schedule holds a multi-slot session and a single-slot one
C12_Witness ==
    /\ Returned
    /\ \E g \in DOMAIN result : \E i, j \in DOMAIN result[g] :
           /\ result[g][i].key.part = 2
           /\ result[g][j].key.part = 0

\* part b of a session comes right after part a in the slots of one day
NextSlotOfDay(ea, eb) ==
    /\ day_of(ea) = day_of(eb)
    /\ timeslots[ea.timeslot].slot_index < timeslots[eb.timeslot].slot_index
    /\ ~\E ts \in DOMAIN timeslots :
           /\ timeslots[ts].day = day_of(ea)
           /\ timeslots[ea.timeslot].slot_index < timeslots[ts].slot_index
           /\ timeslots[ts].slot_index < timeslots[eb.timeslot].slot_index

\* C13: the parts of every multi-slot session of a returned schedule lie on one
\* day and on consecutive slots of that day in ascending slot_index, part k
\* right before part k + 1, whatever the insertion order of the days' slots.
C13_PartsConsecutive ==
    Returned =>
        \A g \in DOMAIN result : \A i, j \in DOMAIN result[g] :
            (/\ result[g][i].key.course = result[g][j].key.course
             /\ result[g][i].key.instance = result[g][j].key.instance
             /\ result[g][i].key.part >= 1
             /\ result[g][j].key.part = result[g][i].key.part + 1) =>
                NextSlotOfDay(result[g][i], result[g][j])

\* a returned multi-slot session whose parts have a slot of another day
\* between them in the timeslot table
C13_Witness ==
    /\ Returned
    /\ \E g \in DOMAIN result : \E i, j \in DOMAIN result[g] :
           /\ result[g][i].key.course = result[g][j].key.course
           /\ result[g][i].key.instance = result[g][j].key.instance
           /\ result[g][i].key.part = 1
           /\ result[g][j].key.part = 2
           /\ \E ts \in DOMAIN timeslots :
                  /\ timeslots[ts].day # day_of(result[g][i])
                  /\ result[g][i].timeslot < ts
                  /\ ts < result[g][j].timeslot

\* the best fitness of a population
max_fitness(pop) == sel_best(pop).fitness[1]

\* C14: the maximum fitness of the population never decreases from one
\* generation to the next, starting from the seed population.
C14_MaxFitnessNonDecreasing ==
    [][pc = "evaluate" => max_fitness(population') >= max_fitness(population)]_vars

\* the fitness of the seed individual of the feasible schedule
seed_fitness == evaluate_schedule(schedule_to_individual(base_schedule))

\* C15: the returned schedule is decoded from the best individual over all
\* generations, so its fitness is at least that of the feasible seed.
C15_ReturnedBestOverall ==
    Returned => max_fitness(population) >= seed_fitness

\* ------------------------------------------ generate_schedule, run twice
\* Neither __init__ nor generate_schedule takes a seed and no line seeds the
\* random module, so a second run on the same input draws afresh: it is the
\* same actions, started again from the constructed state.

\* one single-slot course, two slots to put it in
RerunInputs ==
    {[teachers |-> <<{3}>>, rooms |-> <<{"project"}>>,
      days |-> <<"Mon", "Tue">>, groups |-> <<<<3>>>>]}

RerunInit == Constructed(RerunInputs)

\* lines 14-39 and 41: the first run returned a schedule; a new
\* TimetableScheduler is made of the same tables and generate_schedule called
run_again ==
    /\ pc = "returned"
    /\ result # None
    /\ other_result = None
    /\ other_base' = base_schedule
    /\ other_result' = result
    /\ schedule' = None
    /\ pc' = "idle"
    /\ status' = Unset
    /\ base_schedule' = None
    /\ population' = <<>>
    /\ offspring' = <<>>
    /\ generation' = 0
    /\ k' = 0
    /\ result' = None
    /\ solver_calls' = 0
    /\ optimizer_calls' = 0
    /\ UNCHANGED <<inputs, workflow_vars, report_vars, course_type_arg, suitable_rooms>>

RerunNext ==
    \/ Next
    \/ run_again

RerunSpec == RerunInit /\ [][RerunNext]_vars

\* C16: two runs on the same input (no seed can differ between them) whose
\* feasibility stages gave the same schedule return identical schedules.
C16_RunsAgree ==
    (/\ pc = "returned"
     /\ result # None
     /\ other_result # None
     /\ other_base = base_schedule) => result = other_result

\* ------------------------------------ TimetableGenerator.calculate_metrics
\* src/output_generator.py.  A metric is kept in hundredths, as round(x, 2)
\* leaves it.  Schedule keys and course ids are as above, so that
\* re.sub(r'_\d+$', '', cid.split('_part')[0]) of a key is its course field
\* and re.sub(r'_\d+$', '', course_id) of a course id is the course id.

\* line 477: the frequency table of calculate_metrics
metrics_frequency(course_type) ==
    CASE course_type = "TH" -> 3
      [] course_type = "PR" -> 2
      [] course_type = "LAB" -> 2
      [] course_type = "PROJECT" -> 1
      [] OTHER -> 1

\* line 475: the type of a course, UNKNOWN when the course table lacks it
metrics_course_type(course_id) ==
    IF course_id \in DOMAIN courses THEN courses[course_id].type ELSE "UNKNOWN"

\* lines 449-451
total_assignments == Cardinality(entry_ids(gen_schedule))

\* the entries of self.schedule in a timeslot (the sum of line 467)
entries_in(timeslot_id) ==
    {a \in entry_ids(gen_schedule) : gen_schedule[a[1]][a[2]].timeslot = timeslot_id}

\* lines 448-461: the keys of timeslot_assignments
used_timeslots ==
    {gen_schedule[a[1]][a[2]].timeslot : a \in entry_ids(gen_schedule)}

\* a count that compares teachers and rooms with the entries of the timeslot
\* and leaves the groups out
conflict_free_assignments_no_groups ==
    SumSeq([n \in 1..Len(SetToSortedSeq(used_timeslots)) |->
        LET es == entries_in(SetToSortedSeq(used_timeslots)[n])
            ts_teachers == {gen_schedule[a[1]][a[2]].teacher : a \in es}
            ts_rooms == {gen_schedule[a[1]][a[2]].room : a \in es}
        IN  IF /\ Cardinality(ts_teachers) = Cardinality(ts_rooms)
               /\ Cardinality(ts_rooms) = Cardinality(es)
            THEN Cardinality(es)
            ELSE 0])

\* lines 464-468
conflict_free_assignments ==
    SumSeq([n \in 1..Len(SetToSortedSeq(used_timeslots)) |->
        LET es == entries_in(SetToSortedSeq(used_timeslots)[n])
            ts_teachers == {gen_schedule[a[1]][a[2]].teacher : a \in es}
            ts_rooms == {gen_schedule[a[1]][a[2]].room : a \in es}
            ts_groups == {a[1] : a \in es}
        IN  IF /\ Cardinality(ts_teachers) = Cardinality(ts_rooms)
               /\ Cardinality(ts_rooms) = Cardinality(ts_groups)
               /\ Cardinality(ts_groups) = Cardinality(es)
            THEN Cardinality(ts_groups)
            ELSE 0])

\* lines 471-473: the (group, position in its course list) pairs visited
course_slots ==
    UNION {{<<g, i>> : i \in 1..Len(groups[g])} : g \in DOMAIN groups}

\* lines 481-482: the entries of a group's schedule counted for a course
scheduled_count(group_id, course_id) ==
    LET group_schedule == IF group_id \in DOMAIN gen_schedule
                          THEN gen_schedule[group_id] ELSE <<>>
    IN  Cardinality({i \in DOMAIN group_schedule :
                        group_schedule[i].key.course = course_id})

\* a count that also takes a course scheduled more often than required
correct_count_at_least(group_id, course_id) ==
    IF scheduled_count(group_id, course_id)
           >= metrics_frequency(metrics_course_type(course_id))
    THEN scheduled_count(group_id, course_id)
    ELSE 0

\* lines 486-487: what one course of one group adds to correctly_scheduled
correct_count(group_id, course_id) ==
    IF scheduled_count(group_id, course_id)
           = metrics_frequency(metrics_course_type(course_id))
    THEN scheduled_count(group_id, course_id)
    ELSE 0

\* lines 471-473: the (group, course) pairs in the order the loop visits them
course_visits ==
    LET order == SetToSortedSeq({100 * p[1] + p[2] : p \in course_slots})
    IN  [n \in 1..Len(order) |->
            <<order[n] \div 100, groups[order[n] \div 100][order[n] % 100]>>]

required_frequency(group_id, course_id) ==
    metrics_frequency(metrics_course_type(course_id))

\* line 478
required_classes ==
    SumSeq([n \in 1..Len(course_visits) |->
        required_frequency(course_visits[n][1], course_visits[n][2])])

\* line 483
scheduled_classes ==
    SumSeq([n \in 1..Len(course_visits) |->
        scheduled_count(course_visits[n][1], course_visits[n][2])])

\* line 487
correctly_scheduled ==
    SumSeq([n \in 1..Len(course_visits) |->
        correct_count(course_visits[n][1], course_visits[n][2])])

\* round(n / d, 2) in hundredths: to the nearest, a tie to the even one.  The
\* ties of the ratios here are odd multiples of 1/8, which floats hold exactly.
Round2(n, d) ==
    LET q == (100 * n) \div d
        r == (100 * n) % d
    IN  IF 2 * r < d THEN q
        ELSE IF 2 * r > d THEN q + 1
        ELSE IF q % 2 = 0 THEN q ELSE q + 1

\* lines 490-500.  precision and recall have the same numerator a, so that
\* 2 * (p * r) / (p + r) is 2a / (scheduled + required).
metrics_of ==
    LET a == correctly_scheduled
        precision_positive == scheduled_classes > 0 /\ a > 0
        recall_positive == required_classes > 0 /\ a > 0
    IN  [accuracy |-> IF total_assignments > 0
                      THEN Round2(conflict_free_assignments, total_assignments)
                      ELSE 0,
         precision |-> IF scheduled_classes > 0
                       THEN Round2(a, scheduled_classes) ELSE 0,
         recall |-> IF required_classes > 0
                    THEN Round2(a, required_classes) ELSE 0,
         f1_score |-> IF precision_positive \/ recall_positive
                      THEN Round2(2 * a, scheduled_classes + required_classes)
                      ELSE 0]

\* src/app.py lines 202-212: the schedule is not None, the generator is made
construct_generator ==
    /\ pc = "returned"
    /\ result # None
    /\ gen_schedule' = result
    /\ pc' = "generated"
    /\ UNCHANGED <<inputs, workflow_vars, rerun_vars, schedule, status, base_schedule, population,
                   offspring, generation, k, result, solver_calls,
                   optimizer_calls, course_type_arg, suitable_rooms, metrics>>

\* src/output_generator.py lines 436-502
calculate_metrics ==
    /\ pc = "generated"
    /\ metrics' = metrics_of
    /\ pc' = "metrics_returned"
    /\ UNCHANGED <<inputs, workflow_vars, rerun_vars, schedule, status, base_schedule, population,
                   offspring, generation, k, result, solver_calls,
                   optimizer_calls, course_type_arg, suitable_rooms, gen_schedule>>

\* single-slot courses of two groups in two slots; a two-slot LAB; a group
\* with no course; no course at all
MetricsInputs ==
    {[teachers |-> <<{3, 4}, {3}>>, rooms |-> <<{"classroom"}, {"classroom"}>>,
      days |-> <<"Mon", "Mon">>, groups |-> <<<<3, 4>>, <<3>>>>],
     [teachers |-> <<{2}>>, rooms |-> <<{"lab"}>>,
      days |-> <<"Mon", "Mon", "Tue", "Tue">>, groups |-> <<<<2>>>>],
     [teachers |-> <<{3}>>, rooms |-> <<{"project"}>>,
      days |-> <<"Mon">>, groups |-> <<<<3>>, <<>>>>],
     [teachers |-> <<{3}>>, rooms |-> <<{"project"}>>,
      days |-> <<"Mon">>, groups |-> <<<<>>>>]}

MetricsInit == Constructed(MetricsInputs)

MetricsNext ==
    \/ generate_feasible_schedule
    \/ return_infeasible
    \/ evolve
    \/ return_optimized
    \/ construct_generator
    \/ calculate_metrics

MetricsSpec == MetricsInit /\ [][MetricsNext]_vars

\* the frequency the solver gives a course of a group (scheduler.py line 74)
solver_frequency(group_id, course_id) ==
    IF course_id \in DOMAIN courses
    THEN course_type_frequency(courses[course_id].type) ELSE 1

\* the sum of the solver's frequencies over every (group, course)
solver_required ==
    SumSeq([n \in 1..Len(course_visits) |->
        solver_frequency(course_visits[n][1], course_visits[n][2])])

\* every entry of the generator's schedule is a single-slot session
SingleSlotOnly ==
    \A a \in entry_ids(gen_schedule) : gen_schedule[a[1]][a[2]].key.part = 0

\* every course of every group is in the generator's schedule with exactly
\* the solver's number of instances
SolverFrequencyMet ==
    \A g \in DOMAIN groups : \A c \in Range(groups[g]) :
        Cardinality(instances_present(gen_schedule[g], c)) = solver_frequency(g, c)

\* C17: calculate_metrics takes required as the sum over (group, course) of
\* the solver's frequency of the course type, so that a schedule that holds
\* exactly that many instances of every course has recall 1.0.
C17_RequiredBySolverFrequency ==
    pc = "metrics_returned" =>
        /\ required_classes = solver_required
        /\ (SingleSlotOnly /\ SolverFrequencyMet /\ required_classes > 0) =>
               metrics.recall = 100

\* C18: calculate_metrics counts the instances of a course, the parts of a
\* multi-slot session counting once; when every course is scheduled with
\* exactly its frequency of instances, precision and recall are 1.0.
C18_PartsCollapsed ==
    pc = "metrics_returned" =>
        /\ \A g \in DOMAIN groups : \A c \in Range(groups[g]) :
               scheduled_count(g, c) = Cardinality(instances_present(gen_schedule[g], c))
        /\ (/\ SolverFrequencyMet
            /\ required_classes = solver_required
            /\ required_classes > 0) =>
               (metrics.precision = 100 /\ metrics.recall = 100)

\* the entries that share the timeslot and the group, teacher or room of no
\* other entry
collision_free ==
    {a \in entry_ids(gen_schedule) :
        \A b \in entry_ids(gen_schedule) :
            (b # a /\ gen_schedule[b[1]][b[2]].timeslot = gen_schedule[a[1]][a[2]].timeslot) =>
                /\ b[1] # a[1]
                /\ gen_schedule[b[1]][b[2]].teacher # gen_schedule[a[1]][a[2]].teacher
                /\ gen_schedule[b[1]][b[2]].room # gen_schedule[a[1]][a[2]].room}

\* C19: conflict_free_assignments is the number of placements that collide
\* with no other placement, also in a timeslot where two other placements
\* collide, and accuracy is that number over total_assignments (stated for
\* schedules of single-slot sessions, where a placement is one entry).
C19_ConflictFreeCount ==
    (pc = "metrics_returned" /\ SingleSlotOnly /\ total_assignments > 0) =>
        /\ conflict_free_assignments = Cardinality(collision_free)
        /\ metrics.accuracy = Round2(Cardinality(collision_free), total_assignments)

\* C20: calculate_metrics returns four metrics in [0, 1] for every schedule,
\* and a metric whose denominator is zero is 0.0.  (A division by zero in
\* metrics_of would stop the check with an evaluation error.)
C20_MetricsInRange ==
    pc = "metrics_returned" =>
        /\ metrics.accuracy \in 0..100
        /\ metrics.precision \in 0..100
        /\ metrics.recall \in 0..100
        /\ metrics.f1_score \in 0..100
        /\ total_assignments = 0 => metrics.accuracy = 0
        /\ scheduled_classes = 0 => metrics.precision = 0
        /\ required_classes = 0 => metrics.recall = 0
        /\ correctly_scheduled = 0 => metrics.f1_score = 0

\* metrics of a schedule that lost every session of a required course
C20_Witness ==
    /\ pc = "metrics_returned"
    /\ total_assignments = 0
    /\ required_classes > 0
    /\ metrics.accuracy = 0
    /\ metrics.f1_score = 0

\* ------------------------------------------- the hard constraints A to E
\* An assignment in the sense of the hard constraints: one placement for every
\* required session, of a teacher that handles the course, a room of the
\* preferred kind (any room when there is none) and the slots of one day.

legal_rooms(course_type) ==
    IF preferred_rooms(course_type) # {} THEN preferred_rooms(course_type)
    ELSE Range(room_ids)

placements(s) ==
    LET c == s[2].course
    IN  {[group |-> s[1], key |-> s[2], slots |-> tg, teacher |-> t, room |-> r] :
            tg \in UNION {Range(timeslot_groups(d, courses[c].duration)) : d \in days},
            t \in Range(suitable_teachers(c)),
            r \in legal_rooms(courses[c].type)}

all_placements == UNION {placements(s) : s \in sessions}

\* two placements that may not both be chosen: B, C, D (a shared slot with the
\* same group, teacher or room) and E (two instances of a course of a group
\* starting on the same day)
Exclusive(p, q) ==
    \/ /\ Range(p.slots) \cap Range(q.slots) # {}
       /\ (p.group = q.group \/ p.teacher = q.teacher \/ p.room = q.room)
    \/ /\ p.group = q.group
       /\ p.key.course = q.key.course
       /\ p.key.instance # q.key.instance
       /\ timeslots[p.slots[1]].day = timeslots[q.slots[1]].day

hard_constraints ==
    {[vars |-> placements(s), kind |-> "eq"] : s \in sessions}
    \cup {[vars |-> {p[1], p[2]}, kind |-> "le"] :
             p \in {x \in all_placements \X all_placements :
                       x[1] # x[2] /\ Exclusive(x[1], x[2])}}

HardAssignmentExists == Solutions(hard_constraints, all_placements) # {}

\* C21: generate_schedule returns a schedule only if an assignment satisfying
\* all hard constraints exists; when none exists (teacher contention, or any
\* session without a legal placement) it returns None.
C21_ScheduleOnlyIfSatisfiable ==
    (pc = "returned" /\ ~HardAssignmentExists) => result = None

\* ------------------------------------- generate_timetable_workflow
\* src/app.py lines 165-246.  The tables the parser filled are the tables the
\* scheduler is constructed of (the same dicts), so they are the variables
\* courses .. groups from the start; courses_handled is kept as a set, visited
\* in ascending order.

\* src/input_parser.py lines 157-185: the list validate_data returns
validation_errors ==
    LET teacher_errors ==
            Flatten([t \in 1..Len(teachers) |->
                LET handled == SetToSortedSeq(teachers[t])
                IN  [i \in 1..Len(SelectSeq(handled, LAMBDA c : c \notin DOMAIN courses)) |->
                        [kind |-> "teacher", who |-> t,
                         course |-> SelectSeq(handled, LAMBDA c : c \notin DOMAIN courses)[i]]]])
        group_errors ==
            Flatten([g \in 1..Len(groups) |->
                [i \in 1..Len(SelectSeq(groups[g], LAMBDA c : c \notin DOMAIN courses)) |->
                    [kind |-> "group", who |-> g,
                     course |-> SelectSeq(groups[g], LAMBDA c : c \notin DOMAIN courses)[i]]]])
        all_courses == SetToSortedSeq(DOMAIN courses)
        unassigned == SelectSeq(all_courses,
                          LAMBDA c : ~\E t \in 1..Len(teachers) : c \in teachers[t])
        course_errors ==
            [i \in 1..Len(unassigned) |->
                [kind |-> "course", who |-> 0, course |-> unassigned[i]]]
    IN  teacher_errors \o group_errors \o course_errors

\* lines 174-178: the parser reads the file, or raises (line 230 catches it)
parse_excel ==
    /\ pc = "workflow"
    /\ pc' \in {"parsed", "workflow_error"}
    /\ UNCHANGED <<inputs, report_vars, rerun_vars, workflow_vars, schedule, status,
                   base_schedule, population, offspring, generation, k, result,
                   solver_calls, optimizer_calls, course_type_arg, suitable_rooms>>

\* a workflow that reports the errors and goes on
validate_data_ignored ==
    /\ pc = "parsed"
    /\ errors' = validation_errors
    /\ validate_calls' = validate_calls + 1
    /\ pc' = "validated"
    /\ UNCHANGED <<inputs, report_vars, rerun_vars, schedulers, outputs,
                   timetable_data, schedule, status, base_schedule, population,
                   offspring, generation, k, result, solver_calls,
                   optimizer_calls, course_type_arg, suitable_rooms>>

\* lines 181-189: validate, return on any error
validate_data ==
    /\ pc = "parsed"
    /\ errors' = validation_errors
    /\ validate_calls' = validate_calls + 1
    /\ pc' = IF validation_errors # <<>> THEN "workflow_ended" ELSE "validated"
    /\ UNCHANGED <<inputs, report_vars, rerun_vars, schedulers, outputs,
                   timetable_data, schedule, status, base_schedule, population,
                   offspring, generation, k, result, solver_calls,
                   optimizer_calls, course_type_arg, suitable_rooms>>

\* lines 195-200: TimetableScheduler(...), then generate_schedule is entered
construct_scheduler ==
    /\ pc = "validated"
    /\ schedulers' = schedulers + 1
    /\ schedule' = None
    /\ pc' = "idle"
    /\ UNCHANGED <<inputs, report_vars, rerun_vars, errors, validate_calls, outputs,
                   timetable_data, status, base_schedule, population, offspring,
                   generation, k, result, solver_calls, optimizer_calls,
                   course_type_arg, suitable_rooms>>

\* lines 202-204: generate_schedule returned None
schedule_failed ==
    /\ pc = "returned"
    /\ result = None
    /\ pc' = "workflow_ended"
    /\ UNCHANGED <<inputs, report_vars, rerun_vars, workflow_vars, schedule, status,
                   base_schedule, population, offspring, generation, k, result,
                   solver_calls, optimizer_calls, course_type_arg, suitable_rooms>>

\* the exports and the statistics in the order of lines 215-220
output_order == <<"excel", "html", "pdf", "stats">>

\* lines 215-220: every output is generated, or one of them raises
generate_outputs ==
    /\ pc = "generated"
    /\ \/ /\ outputs' = Range(output_order)
          /\ pc' = "exported"
       \/ \E n \in 0..(Len(output_order) - 1) :
              /\ outputs' = Range(SubSeq(output_order, 1, n))
              /\ pc' = "workflow_error"
    /\ UNCHANGED <<inputs, report_vars, rerun_vars, errors, validate_calls, schedulers,
                   timetable_data, schedule, status, base_schedule, population,
                   offspring, generation, k, result, solver_calls,
                   optimizer_calls, course_type_arg, suitable_rooms>>

\* lines 225-228: the results are stored in the session state and displayed
store_timetable_data ==
    /\ pc = "exported"
    /\ timetable_data' = <<gen_schedule, outputs>>
    /\ pc' = "workflow_ended"
    /\ UNCHANGED <<inputs, report_vars, rerun_vars, errors, validate_calls, schedulers,
                   outputs, schedule, status, base_schedule, population,
                   offspring, generation, k, result, solver_calls,
                   optimizer_calls, course_type_arg, suitable_rooms>>

\* what an earlier run of the workflow left in the session state
PreviousData == <<None, {"previous"}>>

\* a valid file; a valid file with no feasible schedule; a course without a
\* teacher; a group with an unknown course; a teacher with an unknown course
WorkflowInputs ==
    {[courses |-> {3}, teachers |-> <<{3}, {3}>>, rooms |-> <<{"project"}>>,
      days |-> <<"Mon", "Tue">>, groups |-> <<<<3>>>>],
     [courses |-> {3, 4}, teachers |-> <<{3, 4}>>, rooms |-> <<{"classroom"}>>,
      days |-> <<"Mon">>, groups |-> <<<<3, 4>>>>],
     [courses |-> {3, 4}, teachers |-> <<{3}>>, rooms |-> <<{"classroom"}>>,
      days |-> <<"Mon", "Tue">>, groups |-> <<<<3>>>>],
     [courses |-> {3}, teachers |-> <<{3}>>, rooms |-> <<{"project"}>>,
      days |-> <<"Mon", "Tue">>, groups |-> <<<<3, 4>>>>],
     [courses |-> {3}, teachers |-> <<{3, 4}>>, rooms |-> <<{"project"}>>,
      days |-> <<"Mon", "Tue">>, groups |-> <<<<3>>>>]}

\* lines 165-171: the workflow is entered with an uploaded file
WorkflowInit ==
    /\ \E in \in WorkflowInputs :
           /\ courses = [c \in in.courses |-> CourseTable[c]]
           /\ teachers = in.teachers
           /\ rooms = in.rooms
           /\ timeslots = timeslot_table(in.days)
           /\ groups = in.groups
    /\ schedule = None
    /\ pc = "workflow"
    /\ status = Unset
    /\ base_schedule = None
    /\ population = <<>>
    /\ offspring = <<>>
    /\ generation = 0
    /\ k = 0
    /\ result = None
    /\ solver_calls = 0
    /\ optimizer_calls = 0
    /\ course_type_arg = Unset
    /\ suitable_rooms = <<>>
    /\ NotReporting
    /\ NotRerunning
    /\ errors = <<>>
    /\ validate_calls = 0
    /\ schedulers = 0
    /\ outputs = {}
    /\ timetable_data \in {None, PreviousData}

WorkflowNext ==
    \/ parse_excel
    \/ validate_data
    \/ construct_scheduler
    \/ generate_feasible_schedule
    \/ return_infeasible
    \/ evolve
    \/ return_optimized
    \/ schedule_failed
    \/ construct_generator
    \/ generate_outputs
    \/ store_timetable_data

WorkflowSpec == WorkflowInit /\ [][WorkflowNext]_vars

\* generate_schedule has been entered
ScheduleInvoked == solver_calls > 0 \/ pc \in {"idle", "feasible", "best", "returned"}

\* C22: generate_schedule is invoked only after validate_data returned an
\* empty error list; when validation reports an error the workflow ends
\* without constructing the scheduler, without generating outputs and without
\* changing the stored timetable_data.
C22_ValidationPrecedesSolving ==
    /\ []((ScheduleInvoked \/ schedulers > 0) => (validate_calls = 1 /\ errors = <<>>))
    /\ [](errors # <<>> =>
              /\ pc = "workflow_ended"
              /\ schedulers = 0
              /\ solver_calls = 0
              /\ outputs = {}
              /\ gen_schedule = None)
    /\ [][(pc = "parsed" /\ validation_errors # <<>>) =>
              /\ pc' = "workflow_ended"
              /\ timetable_data' = timetable_data
              /\ schedulers' = schedulers
              /\ outputs' = outputs]_vars
    /\ [][timetable_data' # timetable_data =>
              (errors = <<>> /\ validate_calls = 1)]_vars

\* validation reported an error while an earlier timetable is stored
C22_Witness ==
    /\ pc = "workflow_ended"
    /\ errors # <<>>
    /\ timetable_data = PreviousData

\* ------------------------------ _crossover, _mutate, _evaluate_schedule
\* The operators of the toolbox, called on their own: population holds the
\* individuals handed to the call, offspring what the call left of them.

MaxTriples == 2

\* two teachers and one room; one teacher and two rooms
OperatorInputs ==
    {[teachers |-> <<{3, 4}, {3, 4}>>, rooms |-> <<{"classroom"}>>,
      days |-> <<"Mon", "Tue">>, groups |-> <<<<3, 4>>>>],
     [teachers |-> <<{3, 4}>>, rooms |-> <<{"classroom"}, {"classroom"}>>,
      days |-> <<"Mon", "Tue">>, groups |-> <<<<3, 4>>>>]}

OperatorInit ==
    /\ courses = CourseTable
    /\ \E in \in OperatorInputs :
           /\ teachers = in.teachers
           /\ rooms = in.rooms
           /\ timeslots = timeslot_table(in.days)
           /\ groups = in.groups
    /\ schedule = None
    /\ pc = "operators"
    /\ status = Unset
    /\ base_schedule = None
    /\ \E n1, n2 \in 0..MaxTriples :
           \E g1 \in gene_vectors(n1), g2 \in gene_vectors(n2) :
               population = <<Individual(g1, <<>>), Individual(g2, <<>>)>>
    /\ offspring = <<>>
    /\ generation = 0
    /\ k = 0
    /\ result = None
    /\ solver_calls = 0
    /\ optimizer_calls = 0
    /\ course_type_arg = Unset
    /\ suitable_rooms = <<>>
    /\ NotReporting
    /\ NotRerunning
    /\ NotInWorkflow

\* toolbox.mate(child1, child2), lines 283 and 427-437
call_crossover ==
    /\ pc = "operators"
    /\ LET ind1 == population[1].genes
           ind2 == population[2].genes
       IN  \E cx_rand \in 1..Max(1, Len(ind1) - 1) :
               LET children == crossover(ind1, ind2, cx_rand)
               IN  offspring' = <<Individual(children[1], <<>>),
                                  Individual(children[2], <<>>)>>
    /\ pc' = "crossover_returned"
    /\ UNCHANGED <<inputs, report_vars, rerun_vars, workflow_vars, schedule, status,
                   base_schedule, population, generation, k, result,
                   solver_calls, optimizer_calls, course_type_arg, suitable_rooms>>

\* toolbox.mutate(mutant), lines 288 and 439-450
call_mutate ==
    /\ pc = "operators"
    /\ LET individual == population[1].genes
       IN  \/ /\ Len(individual) < 3
              /\ offspring' = <<Individual(individual, <<>>)>>
           \/ /\ Len(individual) >= 3
              /\ \E session_rand \in 0..((Len(individual) \div 3) - 1), component \in 0..2 :
                     \E value \in gene_domain(component) :
                         offspring' = <<Individual(
                             mutate(individual, session_rand, component, value), <<>>)>>
    /\ pc' = "mutate_returned"
    /\ UNCHANGED <<inputs, report_vars, rerun_vars, workflow_vars, schedule, status,
                   base_schedule, population, generation, k, result,
                   solver_calls, optimizer_calls, course_type_arg, suitable_rooms>>

\* toolbox.evaluate on two individuals of one length, lines 274-276 and 364-371
call_evaluate ==
    /\ pc = "operators"
    /\ Len(population[1].genes) = Len(population[2].genes)
    /\ offspring' = [i \in 1..2 |->
                        Individual(population[i].genes,
                                   <<evaluate_schedule(population[i].genes)>>)]
    /\ pc' = "evaluated"
    /\ UNCHANGED <<inputs, report_vars, rerun_vars, workflow_vars, schedule, status,
                   base_schedule, population, generation, k, result,
                   solver_calls, optimizer_calls, course_type_arg, suitable_rooms>>

OperatorNext ==
    \/ call_crossover
    \/ call_mutate
    \/ call_evaluate

OperatorSpec == OperatorInit /\ [][OperatorNext]_vars

\* the genes 3k .. 3k+2 of a genome, k counted from 0
triple(genes, n) == SubSeq(genes, 3 * n + 1, 3 * n + 3)

\* C23: _crossover leaves genomes of different lengths or of length <= 3
\* unchanged; for two genomes of equal length the children are the parents
\* with the tails exchanged from a cut index that is a multiple of 3, so both
\* keep their length and every triple of a child is the triple one of the two
\* parents had at that position.
C23_BlockAlignedCrossover ==
    pc = "crossover_returned" =>
        LET p1 == population[1].genes
            p2 == population[2].genes
            c1 == offspring[1].genes
            c2 == offspring[2].genes
        IN  /\ Len(c1) = Len(p1)
            /\ Len(c2) = Len(p2)
            /\ (Len(p1) # Len(p2) \/ Len(p1) <= 3) => (c1 = p1 /\ c2 = p2)
            /\ Len(p1) = Len(p2) =>
                   /\ \E cut \in {3 * n : n \in 0..(Len(p1) \div 3)} :
                          /\ c1 = SubSeq(p1, 1, cut) \o SubSeq(p2, cut + 1, Len(p2))
                          /\ c2 = SubSeq(p2, 1, cut) \o SubSeq(p1, cut + 1, Len(p1))
                   /\ \A n \in 0..((Len(p1) \div 3) - 1) :
                          /\ triple(c1, n) \in {triple(p1, n), triple(p2, n)}
                          /\ triple(c2, n) \in {triple(p1, n), triple(p2, n)}

\* a child that took its first triple of one parent and its second triple of
\* the other, the parents differing in both genes of each triple that can
\* differ
C23_Witness ==
    /\ pc = "crossover_returned"
    /\ Len(population[1].genes) = 6
    /\ Len(population[2].genes) = 6
    /\ offspring[1].genes \notin {population[1].genes, population[2].genes}
    /\ triple(offspring[1].genes, 0) = triple(population[1].genes, 0)
    /\ triple(offspring[1].genes, 1) = triple(population[2].genes, 1)

\* the positions where two genomes of one length differ
changed_genes(before, after) == {i \in DOMAIN before : after[i] # before[i]}

\* C24: one call of _mutate changes at most one gene; the new value lies in
\* the domain of that gene (start slot, teacher or room by its position in the
\* triple); the genome length and every other gene are unchanged.
C24_SingleLocusMutation ==
    pc = "mutate_returned" =>
        LET before == population[1].genes
            after == offspring[1].genes
        IN  /\ Len(after) = Len(before)
            /\ Cardinality(changed_genes(before, after)) <= 1
            /\ \A i \in DOMAIN after : after[i] \in gene_domain((i - 1) % 3)
            /\ Len(before) < 3 => after = before

\* a mutation that changed the teacher gene of the second session
C24_Witness ==
    /\ pc = "mutate_returned"
    /\ Len(population[1].genes) = 6
    /\ changed_genes(population[1].genes, offspring[1].genes) = {5}

\* --------------------------- the seed of _optimize_schedule, lines 258-276
\* The feasibility stage on the tables of FeasInit, then the seed population.

CodecNext ==
    \/ generate_feasible_schedule
    \/ start_optimize

CodecSpec == FeasInit /\ [][CodecNext]_vars

\* the initial population is made and evaluated, no generation has run
Seeded == pc = "select" /\ generation = 0

\* C25: the genome _schedule_to_individual makes of a schedule of the
\* feasibility stage has three genes for every (group, course, instance) of the
\* input, so its length is 3 x the number of required sessions, and the triple
\* _individual_to_schedule reads for a session is the one written for it: the
\* indices of the session's start slot, teacher and room.
C25_GenomeEncoding ==
    Seeded =>
        LET seed == population[1].genes
        IN  /\ Len(seed) = 3 * Cardinality(sessions)
            /\ \A g \in 1..Len(group_ids) :
                   \A i \in 1..Len(decode_order(group_ids[g])) :
                       LET key == decode_order(group_ids[g])[i]
                           pos == 3 * (decode_offset(g) + i - 1)
                           group_schedule == base_schedule[group_ids[g]]
                       IN  \A j \in session_starts(group_schedule, key.course, key.instance) :
                               /\ pos + 3 <= Len(seed)
                               /\ SubSeq(seed, pos + 1, pos + 3)
                                      = <<group_schedule[j].timeslot - 1,
                                          group_schedule[j].teacher - 1,
                                          group_schedule[j].room - 1>>

\* C26: every individual of the initial population decodes to the schedule
\* the feasibility stage returned: the same keys with the same timeslot,
\* teacher, room and course_id.
C26_SeedRoundTrip ==
    Seeded =>
        \A i \in DOMAIN population : \A g \in DOMAIN groups :
            Range(individual_to_schedule(population[i].genes)[g]) = Range(base_schedule[g])

\* ------------------------------- the populations of _optimize_schedule

\* the number of values the gene at index i (from 1) is reduced by in
\* _individual_to_schedule, lines 340-342
gene_modulus(i) ==
    IF (i - 1) % 3 = 0 THEN Len(timeslot_ids)
    ELSE IF (i - 1) % 3 = 1 THEN Len(teacher_ids)
    ELSE Len(room_ids)

\* a list of individuals as the generation loop keeps it
well_formed(pop) ==
    /\ Len(pop) = population_size
    /\ \A i \in 1..Len(pop) :
           /\ Len(pop[i].genes) = Len(schedule_to_individual(base_schedule))
           /\ \A j \in 1..Len(pop[i].genes) :
                  /\ pop[i].genes[j] \in 0..(gene_modulus(j) - 1)
                  /\ pop[i].genes[j] % gene_modulus(j) = pop[i].genes[j]

\* C27: in every generation of _optimize_schedule, after any selections,
\* crossovers and mutations, the population (and the offspring list that
\* replaces it) has the initial size, every individual has the length of the
\* seed genome, and every gene lies in its domain (timeslot indices at 3k,
\* teacher indices at 3k+1, room indices at 3k+2), so the modulo of the
\* decoder leaves every gene unchanged.
C27_PopulationWellFormed ==
    /\ optimizer_calls > 0 => well_formed(population)
    /\ pc \in {"mate", "mutate", "evaluate"} => well_formed(offspring)

\* a later generation holding an individual that is no longer the seed
C27_Witness ==
    /\ generation >= 1
    /\ pc \in {"select", "best"}
    /\ \E i \in 1..Len(population) :
           /\ population[i].genes # schedule_to_individual(base_schedule)
           /\ Len(population[i].genes) >= 6

\* --------------------------------------- _evaluate_schedule and rooms

\* the genomes agree everywhere but, possibly, at room genes (indices 3k + 2
\* of the source, 3k + 3 here)
same_but_rooms(g1, g2) ==
    /\ Len(g1) = Len(g2)
    /\ \A j \in 1..Len(g1) : (j - 1) % 3 # 2 => g1[j] = g2[j]

\* C28: two genomes that differ only in room genes receive the same fitness
\* from _evaluate_schedule, so a room change that creates or removes a room
\* double-booking never changes an individual's fitness.
C28_FitnessIgnoresRooms ==
    (pc = "evaluated"
         /\ same_but_rooms(population[1].genes, population[2].genes))
        => offspring[1].fitness = offspring[2].fitness

\* two sessions at one timeslot, in one room in the first genome and in two
\* rooms in the second, both evaluated
C28_Witness ==
    /\ pc = "evaluated"
    /\ Len(population[1].genes) = 6
    /\ same_but_rooms(population[1].genes, population[2].genes)
    /\ population[1].genes[1] = population[1].genes[4]
    /\ population[1].genes[3] = population[1].genes[6]
    /\ population[2].genes[3] # population[2].genes[6]
    /\ Len(offspring[1].fitness) = 1

\* ------------------------------------- accuracy of calculate_metrics

\* two entries of self.schedule in one timeslot that share a teacher, a room
\* or a group
colliding(a, b) ==
    /\ a # b
    /\ gen_schedule[a[1]][a[2]].timeslot = gen_schedule[b[1]][b[2]].timeslot
    /\ \/ a[1] = b[1]
       \/ gen_schedule[a[1]][a[2]].teacher = gen_schedule[b[1]][b[2]].teacher
       \/ gen_schedule[a[1]][a[2]].room = gen_schedule[b[1]][b[2]].room

some_collision ==
    \E a, b \in entry_ids(gen_schedule) : colliding(a, b)

\* C29: for every non-empty schedule the accuracy of calculate_metrics (line
\* 489, conflict_free_assignments / total_assignments) is 1.0 if and only if
\* no timeslot hosts two entries that share a teacher, a room or a group, and
\* is strictly below 1.0 when such a collision exists; the rounded value
\* returned for a schedule without collisions is 1.0.
C29_AccuracyOneIffNoCollision ==
    (pc = "metrics_returned" /\ total_assignments > 0) =>
        /\ (conflict_free_assignments = total_assignments) <=> ~some_collision
        /\ some_collision => conflict_free_assignments < total_assignments
        /\ ~some_collision => metrics.accuracy = 100

\* metrics of a schedule with a collision in one timeslot and an entry alone
\* in another
C29_Witness ==
    /\ pc = "metrics_returned"
    /\ some_collision
    /\ conflict_free_assignments > 0
    /\ conflict_free_assignments < total_assignments
    /\ metrics.accuracy \in 1..99

\* ------------------------------------- course ids that contain '_'

UnderscoreCourseTable ==
    CourseTable @@
    (5 :> [type |-> "PROJECT", duration |-> 2]) @@
    (6 :> [type |-> "PR", duration |-> 1])

\* the course tables: with and without ids that contain '_', with and without
\* the course whose id is the first field of 'C3_101'
UnderscoreCourseSets == {{3, 5}, {5}, {6}, {4, 6}, {3, 4}}

\* one or two teachers handling every course, one or two groups taking every
\* course
UnderscoreInit ==
    /\ \E D \in UnderscoreCourseSets :
           /\ courses = [c \in D |-> UnderscoreCourseTable[c]]
           /\ teachers \in {<<D>>, <<D, D>>}
           /\ groups \in {<<SetToSortedSeq(D)>>, <<SetToSortedSeq(D), SetToSortedSeq(D)>>}
    /\ rooms \in {<<{"classroom"}>>, <<{"project"}>>, <<{"classroom"}, {"project"}>>}
    /\ timeslots \in {timeslot_table(ds) :
                         ds \in {<<"Mon", "Mon">>, <<"Mon", "Mon", "Tue">>,
                                 <<"Mon", "Tue", "Tue">>}}
    /\ schedule = None
    /\ pc = "idle"
    /\ status = Unset
    /\ base_schedule = None
    /\ population = <<>>
    /\ offspring = <<>>
    /\ generation = 0
    /\ k = 0
    /\ result = None
    /\ solver_calls = 0
    /\ optimizer_calls = 0
    /\ course_type_arg = Unset
    /\ suitable_rooms = <<>>
    /\ NotReporting
    /\ NotRerunning
    /\ NotInWorkflow

UnderscoreNext ==
    \/ generate_feasible_schedule
    \/ return_infeasible

UnderscoreSpec == UnderscoreInit /\ [][UnderscoreNext]_vars

\* C30: for every course id string, also one that contains '_', the
\* feasibility stage materializes each chosen placement without error and
\* every entry's course_id is the id of the course the session was expanded
\* from.
C30_CourseIdRecovered ==
    /\ pc # "raised"
    /\ (pc = "feasible" /\ base_schedule # None) =>
           \A g \in DOMAIN base_schedule :
               \A i \in DOMAIN base_schedule[g] :
                   base_schedule[g][i].course_id = base_schedule[g][i].key.course

====
